---- MODULE Spec2Model ----
(***************************************************************************)
(* A model of miner_demo.py: the Block data model, the proof-of-work       *)
(* search Block.mine, and Blockchain (genesis, add_block, is_valid), as    *)
(* driven by the menu loop of interactive_demo (add, validate, tamper).    *)
(*                                                                         *)
(* SHA-256 is modelled as a collision-free digest: a digest is the pair of *)
(* its leading hex characters (hex, a pseudo-random function of the        *)
(* header) and the header string it was computed from (pre).  Two digests  *)
(* are equal exactly when their header strings are equal, which is the     *)
(* cryptographic assumption the program itself rests on.                   *)
(***************************************************************************)
EXTENDS Integers, Sequences, FiniteSets, TLC

VARIABLES
    chainState,  \* lifecycle of the Blockchain object
    difficulty,  \* Blockchain.difficulty
    chain,       \* Blockchain.chain, a sequence of blocks
    pc,          \* per caller: position inside __init__ / add_block / mine
    cand,        \* per caller: the local block being built (genesis / new_block)
    out          \* what the last completed operation reported

vars == <<chainState, difficulty, chain, pc, cand, out>>

----------------------------------------------------------------------------
(* Bounds of the model.                                                    *)

\* longest chain explored (genesis included)
MaxLen == 3
\* largest difficulty a Blockchain is constructed with
MaxDifficulty == 1

\* largest nonce a block carries when mine is called on it
MaxStartNonce == 2

\* number of leading hex characters of a digest that the model tracks
HexLen == MaxDifficulty
\* hex digits are base 16
HexBase == 16

\* callers that may hold a block under construction; the menu loop is the
\* single caller Main, which also runs the constructor
Procs == {1, 2}
Main == 1

\* values time.time() may return
Times == {0, 1}

\* difficulties the constructor is called with (one of them negative)
Difficulties == (-1)..MaxDifficulty

----------------------------------------------------------------------------
(* Payload values.  A JSON scalar is tagged with its Python type, so that  *)
(* the float 10.0 and the string "10.0" serialize differently.             *)

Str(n) == [t |-> "str", v |-> n]
Float(n) == [t |-> "float", v |-> n]

\* {"msg": "Genesis Block"}
GenesisData == [msg |-> Str(0)]

\* {"from": sender, "to": receiver, "amount": float(amount)}
Payloads == { [from |-> Str(1), to |-> Str(2), amount |-> Float(10)] }

\* new_value = input(...).strip(): always a str
TamperValues == {Str(1), Str(2)}
\* field names typed at the prompt: the genesis key, a str-valued key and the
\* float-valued key of a payload, and "memo", which is in no payload
TamperKeys == {"msg", "from", "amount", "memo"}
\* int(input(...)) results: every position of chain c, one below, one above
TamperIndexes(c) == (-1)..Len(c)

\* all keys a payload may hold, in sorted order (json.dumps sort_keys=True)
KeyOrder == <<"amount", "from", "msg", "to">>

----------------------------------------------------------------------------
(* Block: header_string, compute_hash, mine.                               *)

\* "0" * 64
ZeroHash == [hex |-> [j \in 1..HexLen |-> 0], pre |-> <<>>]

\* json.dumps(data, sort_keys=True, separators=(",", ":"))
json_dumps(data) ==
    LET ks == SelectSeq(KeyOrder, LAMBDA k : k \in DOMAIN data)
    IN  [j \in 1..Len(ks) |-> <<ks[j], data[ks[j]]>>]

\* header_string with the payload left out of the header
header_stringNoData(b) ==
    <<b.index, b.timestamp, b.previous_hash, <<>>, b.nonce>>

\* f"{index}|{timestamp}|{previous_hash}|{data_json}|{nonce}"
header_string(b) ==
    <<b.index, b.timestamp, b.previous_hash, json_dumps(b.data), b.nonce>>

RECURSIVE Pow(_, _)
Pow(x, n) == IF n <= 0 THEN 1 ELSE x * Pow(x, n - 1)

RECURSIVE HexValue(_)
\* the number a sequence of hex digits denotes
HexValue(ds) ==
    IF ds = <<>> THEN 0
    ELSE HexValue(SubSeq(ds, 1, Len(ds) - 1)) * HexBase + ds[Len(ds)]

\* the n hex digits of w, most significant first
HexDigits(w, n) == [j \in 1..n |-> (w \div Pow(HexBase, n - j)) % HexBase]

RECURSIVE JsonCode(_)
\* a number mixed from a serialized payload
JsonCode(js) ==
    IF js = <<>> THEN 0
    ELSE LET p == js[Len(js)]
             kc == CHOOSE j \in 1..Len(KeyOrder) : KeyOrder[j] = p[1]
         IN  3 * JsonCode(SubSeq(js, 1, Len(js) - 1))
               + kc + 2 * p[2].v + (IF p[2].t = "float" THEN 1 ELSE 0)

\* hashlib.sha256(s.encode("utf-8")).hexdigest()
sha256_hex(s) ==
    LET w == (5 + 3 * s[1] + 5 * s[2] + 7 * HexValue(s[3].hex)
                + 11 * JsonCode(s[4]) + 13 * s[5]) % Pow(HexBase, HexLen)
    IN  [hex |-> HexDigits(w, HexLen), pre |-> s]

compute_hash(b) == sha256_hex(header_string(b))

\* startswith against a prefix that is one character short
StartsWithZerosShort(h, d) ==
    \A j \in 1..(d - 1) : j <= Len(h.hex) /\ h.hex[j] = 0

\* hash.startswith("0" * d); "0" * d is "" when d <= 0
StartsWithZeros(h, d) == \A j \in 1..d : j <= Len(h.hex) /\ h.hex[j] = 0

\* Block.__init__ with time.time() = t
Block(index, data, previous_hash, t) ==
    LET b == [index |-> index, timestamp |-> t, data |-> data,
              previous_hash |-> previous_hash, nonce |-> 0, hash |-> ZeroHash]
    IN  [b EXCEPT !.hash = compute_hash(b)]

\* mine without its assert
MineAssertOff(d) == TRUE

\* the assert at the head of Block.mine
MineAssert(d) == d >= 0

\* a pass that bumps the nonce before the test instead of after it
MineIterationIncrementFirst(b, d) ==
    LET h == compute_hash(b)
    IN  [block |-> [b EXCEPT !.hash = h, !.nonce = b.nonce + 1],
         returned |-> StartsWithZeros(h, d)]

\* a pass that tests the fresh digest without storing it in self.hash
MineIterationNoStore(b, d) ==
    LET h == compute_hash(b)
    IN  IF StartsWithZeros(h, d)
        THEN [block |-> b, returned |-> TRUE]
        ELSE [block |-> [b EXCEPT !.nonce = b.nonce + 1], returned |-> FALSE]

\* a pass that moves the nonce on by two
MineIterationStride(b, d) ==
    LET h == compute_hash(b)
    IN  IF StartsWithZeros(h, d)
        THEN [block |-> [b EXCEPT !.hash = h], returned |-> TRUE]
        ELSE [block |-> [b EXCEPT !.hash = h, !.nonce = b.nonce + 2],
              returned |-> FALSE]

\* one pass of the while loop of Block.mine on block b:
\* the block afterwards and whether the loop returned
MineIteration(b, d) ==
    LET h == compute_hash(b)
    IN  IF StartsWithZeros(h, d)
        THEN [block |-> [b EXCEPT !.hash = h], returned |-> TRUE]
        ELSE [block |-> [b EXCEPT !.hash = h, !.nonce = b.nonce + 1],
              returned |-> FALSE]

RECURSIVE mine(_, _)
\* Block.mine(d) run to its return on block b (the assert aside): the block
\* afterwards
mine(b, d) ==
    LET r == MineIteration(b, d)
    IN  IF r.returned THEN r.block ELSE mine(r.block, d)

----------------------------------------------------------------------------
(* Blockchain.is_valid, as a function of the chain and the difficulty.     *)

\* what an operation reports: the operation, success, a block index, a message
Report(op, ok, index, msg) == [op |-> op, ok |-> ok, index |-> index, msg |-> msg]

NoReport == Report("none", TRUE, -1, "")

\* the loop body without the genesis branch
CheckBlockNoGenesis(c, d, i) ==
    LET block == c[i + 1]
    IN  IF block.hash # compute_hash(block) THEN "hash mismatch"
        ELSE IF ~StartsWithZeros(block.hash, d) THEN "fails difficulty target"
        ELSE IF i > 0 /\ block.previous_hash # c[i].hash
             THEN "previous_hash does not match"
             ELSE ""

\* the loop body without the test of the link to the previous block
CheckBlockNoLink(c, d, i) ==
    LET block == c[i + 1]
    IN  IF block.hash # compute_hash(block) THEN "hash mismatch"
        ELSE IF ~StartsWithZeros(block.hash, d) THEN "fails difficulty target"
        ELSE IF i = 0 /\ block.previous_hash # ZeroHash
             THEN "Genesis previous_hash incorrect"
             ELSE ""

\* the loop body with the link tests moved in front of the difficulty test
CheckBlockLinkFirst(c, d, i) ==
    LET block == c[i + 1]
    IN  IF block.hash # compute_hash(block) THEN "hash mismatch"
        ELSE IF i = 0 /\ block.previous_hash # ZeroHash
             THEN "Genesis previous_hash incorrect"
        ELSE IF i > 0 /\ block.previous_hash # c[i].hash
             THEN "previous_hash does not match"
        ELSE IF ~StartsWithZeros(block.hash, d) THEN "fails difficulty target"
        ELSE ""

\* the body of the for loop of is_valid for position i (0-based): the message
\* printed before "return False", or "" when the block passes every test
CheckBlock(c, d, i) ==
    LET block == c[i + 1]
    IN  IF block.hash # compute_hash(block) THEN "hash mismatch"
        ELSE IF ~StartsWithZeros(block.hash, d) THEN "fails difficulty target"
        ELSE IF i = 0
             THEN IF block.previous_hash # ZeroHash
                  THEN "Genesis previous_hash incorrect"
                  ELSE ""
             ELSE IF block.previous_hash # c[i].hash
                  THEN "previous_hash does not match"
                  ELSE ""

\* is_valid: False with the first failing position and its message, else True
is_valid(c, d) ==
    LET bad == {i \in 0..(Len(c) - 1) : CheckBlock(c, d, i) # ""}
    IN  IF bad = {} THEN Report("is_valid", TRUE, -1, "")
        ELSE LET i == CHOOSE j \in bad : \A k \in bad : j <= k
             IN  Report("is_valid", FALSE, i, CheckBlock(c, d, i))

----------------------------------------------------------------------------
(* The state machine.                                                      *)

NoBlock == <<>>

Init ==
    /\ chainState = "unconstructed"
    /\ difficulty = 0
    /\ chain = <<>>
    /\ pc = [p \in Procs |-> "idle"]
    /\ cand = [p \in Procs |-> NoBlock]
    /\ out = NoReport

\* no operation is in flight
Quiescent == \A p \in Procs : pc[p] = "idle"

\* Blockchain.tip
tip == chain[Len(chain)]

\* Blockchain(difficulty = d): __init__ stores the difficulty, _create_genesis
\* builds the genesis block and enters mine, whose assert raises when d < 0
Construct(d, t) ==
    /\ chainState = "unconstructed"
    /\ difficulty' = d
    /\ cand' = [cand EXCEPT ![Main] = Block(0, GenesisData, ZeroHash, t)]
    /\ IF MineAssert(d)
       THEN /\ chainState' = "constructing"
            /\ pc' = [pc EXCEPT ![Main] = "genesis_mine"]
            /\ out' = out
       ELSE /\ chainState' = "failed"
            /\ pc' = pc
            /\ out' = Report("construct", FALSE, -1, "AssertionError")
    /\ UNCHANGED chain

\* one pass of the while loop of mine, in __init__ or in add_block
MineStep(p) ==
    /\ pc[p] \in {"genesis_mine", "add_mine"}
    /\ LET r == MineIteration(cand[p], difficulty)
       IN  /\ cand' = [cand EXCEPT ![p] = r.block]
           /\ pc' = [pc EXCEPT ![p] =
                        IF ~r.returned THEN pc[p]
                        ELSE IF pc[p] = "genesis_mine" THEN "genesis_ret"
                        ELSE "add_ret"]
    /\ UNCHANGED <<chainState, difficulty, chain, out>>

\* self.chain = [self._create_genesis()]
GenesisReturn ==
    /\ pc[Main] = "genesis_ret"
    /\ chain' = <<cand[Main]>>
    /\ chainState' = "ready"
    /\ pc' = [pc EXCEPT ![Main] = "idle"]
    /\ cand' = [cand EXCEPT ![Main] = NoBlock]
    /\ out' = Report("construct", TRUE, -1, "initialized")
    /\ UNCHANGED difficulty

\* a new block linked to the first block instead of the tip
NewBlockGenesisLink(c, data, t) ==
    Block(c[Len(c)].index + 1, data, c[1].hash, t)

\* a new block that takes the index of the tip as its own
NewBlockSameIndex(c, data, t) == Block(c[Len(c)].index, data, c[Len(c)].hash, t)

\* Block(index=self.tip.index + 1, data=data, previous_hash=self.tip.hash)
\* on chain c with time.time() = t
NewBlock(c, data, t) == Block(c[Len(c)].index + 1, data, c[Len(c)].hash, t)

\* an add_block that appends the fresh block before it mines it
AddBlockBeginAttachFirst(p, data, t) ==
    /\ chainState = "ready"
    /\ pc[p] = "idle"
    /\ Len(chain) < MaxLen
    /\ cand' = [cand EXCEPT ![p] = NewBlock(chain, data, t)]
    /\ chain' = Append(chain, NewBlock(chain, data, t))
    /\ pc' = [pc EXCEPT ![p] = IF MineAssert(difficulty) THEN "add_mine" ELSE "idle"]
    /\ out' = Report("add_block", TRUE, -1, "Mining new block")
    /\ UNCHANGED <<chainState, difficulty>>

\* add_block up to the call of mine
AddBlockBegin(p, data, t) ==
    /\ chainState = "ready"
    /\ pc[p] = "idle"
    /\ Len(chain) < MaxLen
    /\ cand' = [cand EXCEPT ![p] = NewBlock(chain, data, t)]
    /\ pc' = [pc EXCEPT ![p] = IF MineAssert(difficulty) THEN "add_mine" ELSE "idle"]
    /\ out' = Report("add_block", TRUE, -1, "Mining new block")
    /\ UNCHANGED <<chainState, difficulty, chain>>

\* an attach that overwrites the tip instead of appending
AddBlockAttachReplace(p) ==
    /\ pc[p] = "add_ret"
    /\ chain' = [chain EXCEPT ![Len(chain)] = cand[p]]
    /\ out' = Report("add_block", TRUE, -1, "Mined block")
    /\ pc' = [pc EXCEPT ![p] = "idle"]
    /\ cand' = [cand EXCEPT ![p] = NoBlock]
    /\ UNCHANGED <<chainState, difficulty>>

\* an attach that inserts the block at the front of the list
AddBlockAttachFront(p) ==
    /\ pc[p] = "add_ret"
    /\ chain' = <<cand[p]>> \o chain
    /\ out' = Report("add_block", TRUE, -1, "Mined block")
    /\ pc' = [pc EXCEPT ![p] = "idle"]
    /\ cand' = [cand EXCEPT ![p] = NoBlock]
    /\ UNCHANGED <<chainState, difficulty>>

\* add_block after mine returned: self.chain.append(new_block)
AddBlockAttach(p) ==
    /\ pc[p] = "add_ret"
    /\ chain' = Append(chain, cand[p])
    /\ out' = Report("add_block", TRUE, -1, "Mined block")
    /\ pc' = [pc EXCEPT ![p] = "idle"]
    /\ cand' = [cand EXCEPT ![p] = NoBlock]
    /\ UNCHANGED <<chainState, difficulty>>

\* a validation that stores the recomputed digest back into each block
ValidateRepair ==
    /\ chainState = "ready"
    /\ out' = is_valid(chain, difficulty)
    /\ chain' = [i \in 1..Len(chain) |->
                    [chain[i] EXCEPT !.hash = compute_hash(chain[i])]]
    /\ UNCHANGED <<chainState, difficulty, pc, cand>>

\* menu choice 3: chain.is_valid()
Validate ==
    /\ chainState = "ready"
    /\ out' = is_valid(chain, difficulty)
    /\ UNCHANGED <<chainState, difficulty, chain, pc, cand>>

\* the range test without its lower bound
IndexInRangeNoLower(index, c) == index < Len(c)

\* if 0 <= index < len(chain.chain)
IndexInRange(index, c) == 0 <= index /\ index < Len(c)

\* the position (1-based) that the Python expression c[index] reads:
\* a negative index counts from the end
ListIndex(c, index) == IF index < 0 THEN Len(c) + index + 1 ELSE index + 1

\* a tamper that replaces the payload by one that holds the new entry alone
TamperReplaceData(index, key, value) ==
    /\ chainState = "ready"
    /\ IF IndexInRange(index, chain)
       THEN LET block == chain[ListIndex(chain, index)]
            IN  IF key \in DOMAIN block.data
                THEN /\ out' = Report("tamper", TRUE, -1, "modified")
                     /\ chain' = [chain EXCEPT ![ListIndex(chain, index)].data =
                                      [k \in {key} |-> value]]
                ELSE /\ out' = Report("tamper", FALSE, -1, "Invalid field name")
                     /\ chain' = chain
       ELSE /\ out' = Report("tamper", FALSE, -1, "Invalid block index")
            /\ chain' = chain
    /\ UNCHANGED <<chainState, difficulty, pc, cand>>

\* a tamper that stores the digest of the changed header back into the block
TamperReseal(index, key, value) ==
    /\ chainState = "ready"
    /\ IF IndexInRange(index, chain)
       THEN LET block == chain[ListIndex(chain, index)]
                changed == [block EXCEPT !.data = [block.data EXCEPT ![key] = value]]
            IN  IF key \in DOMAIN block.data
                THEN /\ out' = Report("tamper", TRUE, -1, "modified")
                     /\ chain' = [chain EXCEPT ![ListIndex(chain, index)] =
                                      [changed EXCEPT !.hash = compute_hash(changed)]]
                ELSE /\ out' = Report("tamper", FALSE, -1, "Invalid field name")
                     /\ chain' = chain
       ELSE /\ out' = Report("tamper", FALSE, -1, "Invalid block index")
            /\ chain' = chain
    /\ UNCHANGED <<chainState, difficulty, pc, cand>>

\* a tamper that also marks the block, by setting its nonce to -1
TamperLatch(index, key, value) ==
    /\ chainState = "ready"
    /\ IF IndexInRange(index, chain)
       THEN LET block == chain[ListIndex(chain, index)]
            IN  IF key \in DOMAIN block.data
                THEN /\ out' = Report("tamper", TRUE, -1, "modified")
                     /\ chain' = [chain EXCEPT ![ListIndex(chain, index)] =
                                      [block EXCEPT !.data = [block.data EXCEPT ![key] = value],
                                                    !.nonce = -1]]
                ELSE /\ out' = Report("tamper", FALSE, -1, "Invalid field name")
                     /\ chain' = chain
       ELSE /\ out' = Report("tamper", FALSE, -1, "Invalid block index")
            /\ chain' = chain
    /\ UNCHANGED <<chainState, difficulty, pc, cand>>

\* menu choice 4 with an index that int() parsed
Tamper(index, key, value) ==
    /\ chainState = "ready"
    /\ IF IndexInRange(index, chain)
       THEN LET block == chain[ListIndex(chain, index)]
            IN  IF key \in DOMAIN block.data
                THEN /\ out' = Report("tamper", TRUE, -1, "modified")
                     /\ chain' = [chain EXCEPT ![ListIndex(chain, index)].data =
                                      [block.data EXCEPT ![key] = value]]
                ELSE /\ out' = Report("tamper", FALSE, -1, "Invalid field name")
                     /\ chain' = chain
       ELSE /\ out' = Report("tamper", FALSE, -1, "Invalid block index")
            /\ chain' = chain
    /\ UNCHANGED <<chainState, difficulty, pc, cand>>

\* menu choice 4 with an index that is no number: int() raises ValueError
TamperNotANumber ==
    /\ chainState = "ready"
    /\ out' = Report("tamper", FALSE, -1, "Please enter a valid number")
    /\ UNCHANGED <<chainState, difficulty, chain, pc, cand>>

\* the menu loop: a single caller, one operation at a time, each run to
\* completion before the next is chosen
Next ==
    \/ \E d \in Difficulties, t \in Times : Construct(d, t)
    \/ MineStep(Main)
    \/ GenesisReturn
    \/ \E data \in Payloads, t \in Times : Quiescent /\ AddBlockBegin(Main, data, t)
    \/ AddBlockAttach(Main)
    \/ Quiescent /\ Validate
    \/ \E i \in TamperIndexes(chain), k \in TamperKeys, v \in TamperValues :
          Quiescent /\ Tamper(i, k, v)
    \/ Quiescent /\ TamperNotANumber

Spec == Init /\ [][Next]_vars

\* the same loop when the tamper choice is never taken
NextNoTamper ==
    \/ \E d \in Difficulties, t \in Times : Construct(d, t)
    \/ MineStep(Main)
    \/ GenesisReturn
    \/ \E data \in Payloads, t \in Times : Quiescent /\ AddBlockBegin(Main, data, t)
    \/ AddBlockAttach(Main)
    \/ Quiescent /\ Validate

SpecNoTamper == Init /\ [][NextNoTamper]_vars

\* difficulties of the chains that several callers share
ConcDifficulties == {d \in Difficulties : d <= 1}

\* two callers of add_block on one Blockchain with nothing that serializes
\* them: a caller may read the tip, run a pass of mine or append at any
\* moment, and is_valid may run in between.  Reading the tip and building the
\* block is one step here; the program reads tip.index and tip.hash one after
\* the other, so it has every interleaving below and more.
NextConc ==
    \/ \E d \in ConcDifficulties, t \in Times : Construct(d, t)
    \/ \E p \in Procs : MineStep(p)
    \/ GenesisReturn
    \/ \E p \in Procs, data \in Payloads, t \in Times : AddBlockBegin(p, data, t)
    \/ \E p \in Procs : AddBlockAttach(p)
    \/ Validate

SpecConc == Init /\ [][NextConc]_vars

\* is_valid on chains that need not come from add_block: Blockchain.chain is
\* a public list of blocks with public fields.
\* a digest that is the stored hash of no block, with no leading zero
ForeignHash == [hex |-> [j \in 1..HexLen |-> 1], pre |-> <<>>]

\* the blocks that may follow chain c: linked to the all-zero hash, to the
\* stored hash of the last block of c or to a foreign digest; mined at
\* difficulty d or left at nonce 0; the stored hash fresh or overwritten
AnyBlocks(c, d) ==
    LET prevs == {ZeroHash, ForeignHash}
                   \cup (IF c = <<>> THEN {} ELSE {c[Len(c)].hash})
        fresh == {Block(Len(c), GenesisData, ph, 0) : ph \in prevs}
        built == fresh \cup {mine(b, d) : b \in fresh}
    IN  built \cup {[b EXCEPT !.hash = ForeignHash] : b \in built}

RECURSIVE AnyChains(_, _)
\* the chains of n such blocks
AnyChains(n, d) ==
    IF n = 0 THEN {<<>>}
    ELSE UNION { {Append(c, b) : b \in AnyBlocks(c, d)} : c \in AnyChains(n - 1, d) }

InitAnyChain ==
    /\ chainState = "ready"
    /\ difficulty \in 0..MaxDifficulty
    /\ \E n \in 1..MaxLen : chain \in AnyChains(n, difficulty)
    /\ pc = [p \in Procs |-> "idle"]
    /\ cand = [p \in Procs |-> NoBlock]
    /\ out = NoReport

NextAnyChain == Validate

SpecAnyChain == InitAnyChain /\ [][NextAnyChain]_vars

\* Block.mine called directly on a block, and called a second time after it
\* returned.  Caller Main holds the block; cand[Copy] keeps the block as it
\* was when the call in progress began; difficulty holds the argument of the
\* call in progress; out.index the argument of the call before.
Copy == 2

\* arguments of mine: every prefix length a digest can match, and one more
MineDifficulties == 0..(HexLen + 1)

\* the search is followed up to this nonce: one full period of the digest's
\* leading characters past the largest starting nonce
NonceCap == MaxStartNonce + Pow(HexBase, HexLen)

\* the blocks mine is called on: built by Block(...), the nonce then set to
\* some n0 (hash is the digest Block(...) stored, stale when n0 > 0)
MineInputs ==
    {[Block(1, data, ZeroHash, t) EXCEPT !.nonce = n0] :
        data \in {GenesisData} \cup Payloads, t \in Times, n0 \in 0..MaxStartNonce}

InitMine ==
    /\ chainState = "unconstructed"
    /\ difficulty \in MineDifficulties
    /\ chain = <<>>
    /\ pc = [p \in Procs |-> IF p = Main THEN "add_mine" ELSE "idle"]
    /\ \E b \in MineInputs : cand = [p \in Procs |-> b]
    /\ out = Report("mine", TRUE, -1, "first call")

\* a pass of the loop, as long as the nonce is below the cap
MinePass == cand[Main].nonce < NonceCap /\ MineStep(Main)

\* mine(d) is called again on the block the first call returned from
MineAgain(d) ==
    /\ pc[Main] = "add_ret"
    /\ out.msg = "first call"
    /\ difficulty' = d
    /\ pc' = [pc EXCEPT ![Main] = "add_mine"]
    /\ cand' = [cand EXCEPT ![Copy] = cand[Main]]
    /\ out' = Report("mine", TRUE, difficulty, "second call")
    /\ UNCHANGED <<chainState, chain>>

NextMine ==
    \/ MinePass
    \/ \E d \in MineDifficulties : MineAgain(d)

\* the loop of mine has no wait in it: a pass that can run does run
SpecMine == InitMine /\ [][NextMine]_vars /\ WF_vars(MinePass)

----------------------------------------------------------------------------
(* Properties.                                                             *)

\* the report of a failed validation at position i (0-based)
Mismatch(i) == Report("is_valid", FALSE, i, "hash mismatch")

\* the tamper requests the prompt can send in the current state
TamperRequests == TamperIndexes(chain) \X TamperKeys \X TamperValues

\* the step is the menu's tamper branch run on request r = <<index, key, value>>
\* (the test of the report comes first only to skip the other steps early)
TamperStep(r) == out'.op = "tamper" /\ Quiescent /\ Tamper(r[1], r[2], r[3])

\* C1 as stated: on a chain of length >= 2, every tamper(i, k, v) with i in
\* range and k a key of block i makes the next validate() fail with
\* "hash mismatch" at index i, whatever v is and whatever was done before.
C1_AnyTamperDetected ==
    [][\A r \in TamperRequests :
          ( /\ Len(chain) >= 2
            /\ 0 <= r[1] /\ r[1] < Len(chain)
            /\ r[2] \in DOMAIN chain[r[1] + 1].data
            /\ TamperStep(r) )
          => is_valid(chain', difficulty') = Mismatch(r[1])]_vars

\* C1, amended: on a chain of length >= 2 that validate() accepts, a
\* tamper(i, k, v) with i in range, k a key of block i and v different from the
\* value stored under k makes the next validate() fail with "hash mismatch"
\* at index i.
C1_TamperDetected ==
    [][\A r \in TamperRequests :
          ( /\ Len(chain) >= 2
            /\ 0 <= r[1] /\ r[1] < Len(chain)
            /\ r[2] \in DOMAIN chain[r[1] + 1].data
            /\ chain[r[1] + 1].data[r[2]] # r[3]
            /\ TamperStep(r)
            /\ is_valid(chain, difficulty).ok )
          => is_valid(chain', difficulty') = Mismatch(r[1])]_vars

\* C1 witness: the last block of a three-block chain was modified and
\* validation now fails there with a hash mismatch, the earlier blocks intact.
C1_Witness ==
    /\ out = Report("tamper", TRUE, -1, "modified")
    /\ Len(chain) = 3
    /\ chain[3].data.amount = Str(2)
    /\ is_valid(chain, difficulty) = Mismatch(2)

\* C2: with no tamper, validate() succeeds in every state of a constructed
\* chain, for every difficulty and every sequence of appends.
C2_ValidationSound ==
    chainState = "ready" => is_valid(chain, difficulty) = Report("is_valid", TRUE, -1, "")

\* C2 witness: validate() reported success on a full chain mined at the
\* highest difficulty with a nonce that had to be searched for.
C2_Witness ==
    /\ out = Report("is_valid", TRUE, -1, "")
    /\ Len(chain) = MaxLen
    /\ difficulty = MaxDifficulty
    /\ \E i \in 1..Len(chain) : chain[i].nonce > 0

\* C3: with a single caller, every block after the first carries the stored
\* hash of the block before it, and a block being built by add_block carries
\* the hash of the tip it was started from, which is still the tip.
C3_ChainLinkage ==
    /\ \A i \in 2..Len(chain) : chain[i].previous_hash = chain[i - 1].hash
    /\ \A p \in Procs :
          pc[p] \in {"add_mine", "add_ret"} => cand[p].previous_hash = tip.hash

\* C3 witness: a third block was attached behind a tampered second block and
\* carries that block's stored hash.
C3_Witness ==
    /\ out.msg = "Mined block"
    /\ Len(chain) = 3
    /\ chain[2].data.from = Str(2)
    /\ chain[3].previous_hash = chain[2].hash
    /\ chain[3].previous_hash # chain[1].hash

\* every field of block b except the payload
Sealed(b) == <<b.index, b.timestamp, b.previous_hash, b.nonce, b.hash>>

\* C4: construction leaves exactly one block; afterwards the chain is never
\* empty, no step shortens it, an append lengthens it by exactly one and
\* keeps every earlier block as it was, and every step keeps each attached
\* block at its position (tamper changes payload values only).
C4_AppendOnly ==
    [][ /\ (chainState # "ready" /\ chainState' = "ready") => Len(chain') = 1
        /\ chainState = "ready" =>
              /\ chainState' = "ready"
              /\ Len(chain) >= 1
              /\ Len(chain') \in {Len(chain), Len(chain) + 1}
              /\ \A i \in 1..Len(chain) : Sealed(chain'[i]) = Sealed(chain[i])
              /\ AddBlockAttach(Main) =>
                    /\ Len(chain') = Len(chain) + 1
                    /\ SubSeq(chain', 1, Len(chain)) = chain
              /\ (Quiescent /\ Validate) => chain' = chain ]_vars

\* C4 witness: a chain grown to full length by appends, with a tampered block.
C4_Witness ==
    /\ Len(chain) = MaxLen
    /\ out.msg = "Mined block"
    /\ chain[1].data.msg # Str(0)

\* C5: when mine(d) has returned, and for every block in the chain, the first
\* d hex characters of the stored hash are '0'.
C5_DifficultyMet ==
    /\ \A p \in Procs :
          pc[p] \in {"genesis_ret", "add_ret"} =>
              \A j \in 1..difficulty : cand[p].hash.hex[j] = 0
    /\ \A i \in 1..Len(chain) :
          \A j \in 1..difficulty : chain[i].hash.hex[j] = 0

\* C5 witness: mine returned at the highest difficulty after a real search.
C5_Witness ==
    /\ pc[Main] = "add_ret"
    /\ difficulty = MaxDifficulty
    /\ cand[Main].nonce > 1
    /\ chain[1].nonce > 0

\* C6: whenever a block is attached (the genesis block by the constructor, any
\* other block by add_block), its stored hash is the digest of its header as
\* the header then stands.
C6_HashAtAcceptance ==
    [][Len(chain') > Len(chain) =>
          chain'[Len(chain')].hash = compute_hash(chain'[Len(chain')])]_vars

\* C6 witness: a block whose nonce had to be searched for was just attached.
C6_Witness ==
    /\ out.msg = "Mined block"
    /\ tip.nonce > 2
    /\ tip.hash = compute_hash(tip)
    /\ tip.hash.pre[5] = tip.nonce

\* a tamper request that the prompt must refuse in the current state
Malformed(index, key) ==
    \/ index < 0
    \/ index >= Len(chain)
    \/ key \notin DOMAIN chain[index + 1].data

\* the message a refused request gets
Refusal(index, key) ==
    IF index < 0 \/ index >= Len(chain)
    THEN Report("tamper", FALSE, -1, "Invalid block index")
    ELSE Report("tamper", FALSE, -1, "Invalid field name")

\* C7: a tamper request with an index outside 0..length-1 is answered
\* "Invalid block index", one with a key that the block's payload lacks
\* "Invalid field name"; either way the blocks, the length and the difficulty
\* stay as they were, and so does the result of validate().
C7_MalformedTamperRejected ==
    [][ /\ \A r \in TamperRequests :
              (TamperStep(r) /\ Malformed(r[1], r[2])) =>
                  /\ out' = Refusal(r[1], r[2])
                  /\ chain' = chain
                  /\ difficulty' = difficulty
        /\ (\E r \in TamperRequests :
              TamperStep(r) /\ Malformed(r[1], r[2])) =>
                  is_valid(chain', difficulty') = is_valid(chain, difficulty) ]_vars

\* C7 witness: a request for a negative index was refused on a chain that fails
\* validation, and the chain still fails the same way.
C7_Witness ==
    /\ out = Report("tamper", FALSE, -1, "Invalid block index")
    /\ Len(chain) = 2
    /\ is_valid(chain, difficulty) = Mismatch(1)

\* C8: a negative difficulty stops the constructor with an error before any
\* block is attached: the chain stays empty and never becomes usable, and a
\* chain that is being mined or is usable has a difficulty >= 0.
C8_NegativeDifficultyRefused ==
    /\ difficulty < 0 =>
          /\ chainState = "failed"
          /\ chain = <<>>
          /\ Quiescent
          /\ out = Report("construct", FALSE, -1, "AssertionError")
    /\ chainState \in {"constructing", "ready"} => difficulty >= 0

\* C8 witness: the constructor was called with difficulty -1 and failed.
C8_Witness ==
    /\ difficulty = -1
    /\ chainState = "failed"
    /\ cand[Main].nonce = 0

\* C9: validate() changes no block, nor the length, nor the difficulty,
\* whether it succeeds or fails, and when the previous operation was a
\* validate() too it reports the same result again.
C9_ValidateObservational ==
    [][(out'.op = "is_valid" /\ Quiescent /\ Validate) =>
          /\ chain' = chain
          /\ difficulty' = difficulty
          /\ chainState' = chainState
          /\ out' = is_valid(chain', difficulty')
          /\ out.op = "is_valid" => out' = out]_vars

\* C9 witness: validate() reported a failure and the chain it looked at still
\* fails in the same way.
C9_Witness ==
    /\ out.op = "is_valid"
    /\ ~out.ok
    /\ out.index = 1
    /\ Len(chain) = 3
    /\ is_valid(chain, difficulty) = out

\* the chain made of the blocks of c from position i (0-based) on: its first
\* block is an attached, mined block of c whose previous_hash is a real digest
ChainFrom(c, i) == SubSeq(c, i + 1, Len(c))

\* C10: the first block of a constructed chain has index 0 and the all-zero
\* previous_hash; and for a chain whose first block carries another
\* previous_hash (here: any tail of the chain that starts at a later block),
\* with that block's stored hash consistent and meeting the difficulty,
\* validate() answers "Genesis previous_hash incorrect" at index 0.
C10_GenesisInvariant ==
    chainState = "ready" =>
        /\ chain[1].index = 0
        /\ chain[1].previous_hash = ZeroHash
        /\ \A i \in 1..(Len(chain) - 1) :
              LET c == ChainFrom(chain, i)
              IN  ( /\ c[1].previous_hash # ZeroHash
                    /\ c[1].hash = compute_hash(c[1])
                    /\ \A j \in 1..difficulty : c[1].hash.hex[j] = 0 )
                  => is_valid(c, difficulty)
                       = Report("is_valid", FALSE, 0, "Genesis previous_hash incorrect")

\* C10 witness: a chain of three blocks at the highest difficulty, the first
\* one tampered, whose tail from the second block on starts with a consistent
\* block and is rejected for its genesis link.
C10_Witness ==
    /\ chainState = "ready"
    /\ Len(chain) = MaxLen
    /\ difficulty = MaxDifficulty
    /\ chain[1].previous_hash = ZeroHash
    /\ chain[1].data.msg = Str(1)
    /\ chain[2].hash = compute_hash(chain[2])
    /\ is_valid(ChainFrom(chain, 1), difficulty)
         = Report("is_valid", FALSE, 0, "Genesis previous_hash incorrect")

\* a block whose mining has completed at the chain's difficulty: the stored
\* hash is the digest of the header and carries the required zeros
MiningCompleted(b, d) == b.hash = compute_hash(b) /\ StartsWithZeros(b.hash, d)

\* C11: with appends in flight, the sequence changes only in the single step
\* in which a caller whose mine has returned appends its finished candidate;
\* reading the tip, building the candidate and the passes of the nonce search
\* leave the sequence alone, so tip and validate() only ever see blocks whose
\* mining has completed.
C11_NoHalfAttached ==
    [][ /\ chain' # chain =>
              \E p \in Procs :
                  /\ pc[p] \in {"genesis_ret", "add_ret"}
                  /\ pc'[p] = "idle"
                  /\ MiningCompleted(cand[p], difficulty)
                  /\ chain' = Append(chain, cand[p])
        /\ (\E p \in Procs : pc'[p] \in {"genesis_mine", "add_mine"} /\ cand'[p] # cand[p])
              => chain' = chain
        /\ \A i \in 1..Len(chain') : MiningCompleted(chain'[i], difficulty') ]_vars

\* C11 witness: one caller is in the middle of its nonce search, the other has
\* a mined candidate it has not appended yet, and a validate() that ran
\* meanwhile saw the two attached blocks only and accepted them.
C11_Witness ==
    /\ pc[1] = "add_mine"
    /\ cand[1].nonce > 0
    /\ pc[2] = "add_ret"
    /\ Len(chain) = 2
    /\ out = Report("is_valid", TRUE, -1, "")

\* the positions (1-based) whose previous_hash is not the stored hash of the
\* block before
BrokenLinks(c) == {i \in 2..Len(c) : c[i].previous_hash # c[i - 1].hash}

\* C12: with two unsynchronized callers a chain with a broken link is
\* reachable (the witness).  Whenever a link is broken, two attached blocks
\* were built on the same tip (same previous_hash, same index) and validate()
\* fails with "previous_hash does not match" at the first broken position;
\* a chain on which no two blocks were built on the same tip, as serialized
\* appends produce it, has no broken link and validate() accepts it.
C12_BrokenLinkFromOverlap ==
    chainState = "ready" =>
        LET broken == BrokenLinks(chain)
            sameTip == {ij \in (1..Len(chain)) \X (1..Len(chain)) :
                          /\ ij[1] < ij[2]
                          /\ chain[ij[1]].previous_hash = chain[ij[2]].previous_hash}
        IN  /\ broken # {} =>
                  /\ \E ij \in sameTip : chain[ij[1]].index = chain[ij[2]].index
                  /\ \E i \in broken :
                        /\ \A k \in broken : i <= k
                        /\ is_valid(chain, difficulty)
                             = Report("is_valid", FALSE, i - 1, "previous_hash does not match")
            /\ sameTip = {} => broken = {}
            /\ broken = {} => is_valid(chain, difficulty).ok

\* C12 witness: both callers read the genesis block as the tip before either
\* appended; the two blocks carry the same index, the third block's
\* previous_hash is the genesis hash, and validate() reported the broken link.
C12_Witness ==
    /\ Len(chain) = 3
    /\ chain[2].index = chain[3].index
    /\ chain[3].previous_hash = chain[1].hash
    /\ chain[3].previous_hash # chain[2].hash
    /\ out = Report("is_valid", FALSE, 2, "previous_hash does not match")

\* the three tests of validate() on the block at position i (1-based) of c
HashBad(c, i) == c[i].hash # compute_hash(c[i])
TargetBad(c, d, i) == ~StartsWithZeros(c[i].hash, d)
LinkBad(c, i) ==
    IF i = 1 THEN c[1].previous_hash # ZeroHash
    ELSE c[i].previous_hash # c[i - 1].hash

\* the message of each failure
FirstReason(c, d, i) ==
    IF HashBad(c, i) THEN "hash mismatch"
    ELSE IF TargetBad(c, d, i) THEN "fails difficulty target"
    ELSE IF i = 1 THEN "Genesis previous_hash incorrect"
    ELSE "previous_hash does not match"

\* C13: on any chain, validate() reports the smallest position at which one
\* of the three tests fails, with the reason of the first failing test in the
\* order hash mismatch, difficulty, link (the genesis sentinel at position 0,
\* the hash of the block before elsewhere), whatever the later blocks are
\* like; it succeeds when no test fails anywhere.
C13_FirstFailureReported ==
    out.op = "is_valid" =>
        LET failing == {i \in 1..Len(chain) :
                           \/ HashBad(chain, i)
                           \/ TargetBad(chain, difficulty, i)
                           \/ LinkBad(chain, i)}
        IN  IF failing = {} THEN out = Report("is_valid", TRUE, -1, "")
            ELSE \E i \in failing :
                    /\ \A k \in failing : i <= k
                    /\ out = Report("is_valid", FALSE, i - 1,
                                    FirstReason(chain, difficulty, i))

\* C13 witness: the second block misses the difficulty target and is linked
\* to a foreign digest as well, and the third block has a stale hash;
\* validate() reported the second block, for its difficulty.
C13_Witness ==
    /\ Len(chain) = 3
    /\ ~HashBad(chain, 1) /\ ~TargetBad(chain, difficulty, 1) /\ ~LinkBad(chain, 1)
    /\ ~HashBad(chain, 2) /\ TargetBad(chain, difficulty, 2) /\ LinkBad(chain, 2)
    /\ HashBad(chain, 3)
    /\ out = Report("is_valid", FALSE, 1, "fails difficulty target")

\* the second call of mine has returned, and it had the argument of the first
SecondCallReturned ==
    /\ pc[Main] = "add_ret"
    /\ out = Report("mine", TRUE, difficulty, "second call")

\* C14 as stated: after a second mine(d) on a block the first mine(d) returned
\* from, the nonce is larger and the hash is another one.
C14_SecondCallMovesNonce ==
    SecondCallReturned =>
        /\ cand[Main].nonce > cand[Copy].nonce
        /\ cand[Main].hash # cand[Copy].hash

\* C14, amended: a second mine(d) with the same d re-tests the current nonce,
\* finds the prefix again and returns with the block as the first call left
\* it: same nonce, same hash.  A second call with any argument never lowers
\* the nonce, and leaves the block alone whenever the stored hash already
\* meets its argument.
C14_SecondCallIdempotent ==
    (pc[Main] = "add_ret" /\ out.msg = "second call") =>
        /\ cand[Main].nonce >= cand[Copy].nonce
        /\ StartsWithZeros(cand[Copy].hash, difficulty) => cand[Main] = cand[Copy]
        /\ out.index = difficulty => cand[Main] = cand[Copy]

\* C14 witness: the first call at the highest difficulty had to search, the
\* second call with the same argument has returned, block unchanged.
C14_Witness ==
    /\ SecondCallReturned
    /\ difficulty = MaxDifficulty
    /\ cand[Copy].nonce > MaxStartNonce
    /\ cand[Main] = cand[Copy]

\* the header hash of block b at nonce n has d leading zeros
Meets(b, n, d) == StartsWithZeros(compute_hash([b EXCEPT !.nonce = n]), d)

\* what holds of a call of mine in progress or just returned: start is the
\* block as the call found it, cur the block now
MineSearchState ==
    pc[Main] \in {"add_mine", "add_ret"} =>
        LET start == cand[Copy]
            cur == cand[Main]
        IN  /\ cur.nonce >= start.nonce
            /\ [cur EXCEPT !.nonce = start.nonce, !.hash = start.hash] = start
            /\ \A n \in start.nonce..(cur.nonce - 1) : ~Meets(start, n, difficulty)
            /\ (pc[Main] = "add_mine" /\ cur.nonce > start.nonce)
                  => cur.hash = compute_hash([cur EXCEPT !.nonce = cur.nonce - 1])
            /\ pc[Main] = "add_ret" =>
                  /\ Meets(start, cur.nonce, difficulty)
                  /\ cur.hash = compute_hash(cur)
                  /\ cur = mine(start, difficulty)
                  /\ difficulty = 0 => cur.nonce = start.nonce

\* C15: mine(d) tests the nonces n0, n0+1, ... in order from the block's
\* current nonce n0, touching nothing but nonce and hash and storing each
\* fresh hash before its test; it returns only at the least n >= n0 whose
\* header hash has d leading zeros, with hash equal to that header hash (for
\* d = 0 at n0 itself), and whenever such an n lies ahead it does return.
C15_LinearSearch ==
    /\ []MineSearchState
    /\ (pc[Main] = "add_mine"
          /\ \E n \in cand[Main].nonce..(NonceCap - 1) : Meets(cand[Main], n, difficulty))
       ~> (pc[Main] = "add_ret")

\* C15 witness: a first call at the highest difficulty on a block whose nonce
\* was not 0 has returned after several passes.
C15_Witness ==
    /\ pc[Main] = "add_ret"
    /\ out.msg = "first call"
    /\ difficulty = MaxDifficulty
    /\ cand[Copy].nonce = MaxStartNonce
    /\ cand[Main].nonce > cand[Copy].nonce + 1
    /\ cand[Main].hash = compute_hash(cand[Main])

\* C16: a tamper(i, k, v) that reports success changes the value under k in
\* the payload of block i to v and nothing else: the payload keeps its keys
\* and its other values, the block keeps index, timestamp, previous_hash,
\* nonce and hash, every other block, the length and the difficulty stay.
C16_TamperFrame ==
    [][(out'.op = "tamper" /\ out'.ok) =>
          \A r \in TamperRequests :
              TamperStep(r) =>
                  LET old == chain[r[1] + 1]
                      new == chain'[r[1] + 1]
                  IN  /\ Len(chain') = Len(chain)
                      /\ difficulty' = difficulty
                      /\ chainState' = chainState
                      /\ \A j \in 1..Len(chain) : j # r[1] + 1 => chain'[j] = chain[j]
                      /\ [new EXCEPT !.data = old.data] = old
                      /\ DOMAIN new.data = DOMAIN old.data
                      /\ \A k \in DOMAIN old.data : k # r[2] => new.data[k] = old.data[k]
                      /\ new.data[r[2]] = r[3]]_vars

\* C16 witness: the sender of the second block was rewritten; receiver and
\* amount are as appended, and the stored hash is still the digest of the
\* header the block was mined with.
C16_Witness ==
    /\ out = Report("tamper", TRUE, -1, "modified")
    /\ Len(chain) = 3
    /\ chain[2].data = [from |-> Str(2), to |-> Str(2), amount |-> Float(10)]
    /\ chain[2].hash.pre[4] = json_dumps([from |-> Str(1), to |-> Str(2), amount |-> Float(10)])
    /\ chain[2].hash.pre[5] = chain[2].nonce
    /\ ~HashBad(chain, 1) /\ ~HashBad(chain, 3)

\* C17: whatever the single caller appends, tampers with and validates, every
\* stored hash keeps its leading zeros and every previous_hash stays the
\* stored hash before it (the zero hash in the first block), so validate()
\* either succeeds or reports "hash mismatch"; the difficulty, genesis-link
\* and broken-link failures are never reported.
C17_OnlyHashMismatch ==
    chainState = "ready" =>
        /\ \A i \in 1..Len(chain) :
              ~TargetBad(chain, difficulty, i) /\ ~LinkBad(chain, i)
        /\ is_valid(chain, difficulty).msg \in {"", "hash mismatch"}
        /\ out.op = "is_valid" => out.msg \in {"", "hash mismatch"}

\* C17 witness: every block of a full chain has been tampered with, and
\* validate() reported a hash mismatch.
C17_Witness ==
    /\ Len(chain) = MaxLen
    /\ \A i \in 1..Len(chain) : HashBad(chain, i)
    /\ difficulty = MaxDifficulty
    /\ out = Report("is_valid", FALSE, 0, "hash mismatch")

\* C18: an append on a chain that validate() rejects leaves the verdict as it
\* was, same index and same reason, also when the tampered block is the tip
\* the new block is built on; by induction the same holds after any number of
\* appends, and the new blocks are never the ones reported.
C18_AppendKeepsVerdict ==
    [][(Len(chain') > Len(chain) /\ Len(chain) >= 1
          /\ ~is_valid(chain, difficulty).ok)
       => /\ is_valid(chain', difficulty') = is_valid(chain, difficulty)
          /\ is_valid(chain', difficulty').index < Len(chain)]_vars

\* C18 witness: the second block was the tip when it was tampered with, a
\* third block was then appended on it, itself consistent and linked to the
\* stored hash of the tampered block, and validation still fails at the
\* second block.
C18_Witness ==
    /\ out = Report("add_block", TRUE, -1, "Mined block")
    /\ Len(chain) = 3
    /\ ~HashBad(chain, 1)
    /\ HashBad(chain, 2)
    /\ ~HashBad(chain, 3)
    /\ chain[3].previous_hash = chain[2].hash
    /\ is_valid(chain, difficulty) = Mismatch(1)

\* the positions (1-based) of c whose payload no longer serializes to the
\* text that the stored hash was computed from
Altered(c) == {i \in 1..Len(c) : json_dumps(c[i].data) # c[i].hash.pre[4]}

\* C19: validate() looks at the present payloads only and remembers no
\* tamper: it succeeds exactly when every payload has the value it was mined
\* with, so writing the original value back, or writing a value equal to the
\* stored one, leaves or makes the chain valid again; otherwise it reports the
\* first block whose payload differs.
C19_DetectionNotLatched ==
    chainState = "ready" =>
        LET altered == Altered(chain)
        IN  IF altered = {} THEN is_valid(chain, difficulty) = Report("is_valid", TRUE, -1, "")
            ELSE \E i \in altered :
                    /\ \A k \in altered : i <= k
                    /\ is_valid(chain, difficulty) = Mismatch(i - 1)

\* C19 witness: the last thing done to a full chain was a successful tamper,
\* which wrote the sender the second block was mined with, and validate()
\* accepts the chain.
C19_Witness ==
    /\ out = Report("tamper", TRUE, -1, "modified")
    /\ Len(chain) = MaxLen
    /\ chain[2].data.from = Str(1)
    /\ Altered(chain) = {}
    /\ is_valid(chain, difficulty).ok

\* C20: with a single caller the block at position i (0-based) carries
\* index i, so the indices are unique and go up by one, the block being
\* mined carries the position it will be appended at, and the index that
\* validate() reports is the index field of the block that fails.
C20_IndexIsPosition ==
    chainState = "ready" =>
        /\ \A i \in 1..Len(chain) : chain[i].index = i - 1
        /\ \A p \in Procs : pc[p] \in {"add_mine", "add_ret"} => cand[p].index = Len(chain)
        /\ LET r == is_valid(chain, difficulty)
           IN  ~r.ok => r.index \in 0..(Len(chain) - 1) /\ chain[r.index + 1].index = r.index
        /\ (out.op = "is_valid" /\ ~out.ok) => chain[out.index + 1].index = out.index

\* C20 witness: validate() reported the third block of a chain whose first
\* two blocks are intact, and that block's index field is 2.
C20_Witness ==
    /\ out.op = "is_valid"
    /\ ~out.ok
    /\ out.index = 2
    /\ Len(chain) = 3
    /\ chain[3].index = 2
    /\ chain[2].index = 1
    /\ HashBad(chain, 3)

====
